---- MODULE Spec2Model ----
(***************************************************************************)
(* Model of the concurrent multi-device command execution engine of        *)
(* netmiko_collector: SSHConnection / execute_commands_on_device (ssh.py)  *)
(* and ExecutionStats / execute_on_devices (executor.py).                  *)
(*                                                                         *)
(* One batch is modelled: the caller's thread runs execute_on_devices, the *)
(* pool's workers run one execute_commands_on_device per device position.  *)
(* The transport (ConnectHandler, send_command, disconnect) and the        *)
(* progress callback are black boxes whose outcome is chosen at each call. *)
(***************************************************************************)
EXTENDS Integers, Sequences, FiniteSets, TLC

\* ---------------------------------------------------------------- bounds
MaxDevices == 2
MaxCommands == 3
MaxRetriesBound == 3
MaxWorkers == 2
\* size of one batch: the steps of one device's call (pick-up + connect
\* attempts allowed + commands + teardown), weighted by the square of the
\* number of devices, whose calls interleave
MaxWork == 20
\* execute_on_device_batches: largest batch_size, and the steps of one run
MaxBatchSize == 2
MaxBatchWork == 8
\* Device: how far from either port limit the ports tried go
PortMargin == 2

DeviceNames == <<"r1", "r2">>
CommandTexts == <<"a", "b">>

\* ------------------------------------------------------------- variables
VARIABLES
    devices,        \* execute_on_devices argument: list of Device (by value)
    commands,       \* execute_on_devices argument: list of Command (by value)
    max_workers,    \* execute_on_devices argument
    max_retries,    \* ssh_config.max_retries
    has_callback,   \* progress_callback is not None
    pc,             \* position of the calling thread inside execute_on_devices
    main_exc,       \* exception that left execute_on_devices ("none" if none)
    cur,            \* device position of the future the loop is processing
    processed,      \* futures already yielded by as_completed
    unit,           \* per device position: the submitted execute_commands_on_device call
    all_results,    \* all_results list of execute_on_devices
    stats,          \* the ExecutionStats object
    cb_calls,       \* every invocation of progress_callback, in order
    batch,          \* the enclosing execute_on_device_batches call, if any
    made,           \* a Device(...) construction and the object it yields
    legacy          \* a connect_with_retry call of the legacy script, if any

vars == <<devices, commands, max_workers, max_retries, has_callback, pc,
          main_exc, cur, processed, unit, all_results, stats, cb_calls, batch,
          made, legacy>>

inputs == <<devices, commands, max_workers, max_retries, has_callback>>

D == Len(devices)
C == Len(commands)
Positions == 1..D

\* ------------------------------------------------------------ data model
\* models.py ExecutionStatus
SUCCESS == "success"
FAILED == "failed"
TIMEOUT == "timeout"
AUTH_FAILED == "auth_failed"
PENDING == "pending"
RUNNING == "running"
SKIPPED == "skipped"

\* models.py ExecutionResult(device, command, status, output, error); the
\* engine never passes retries, so the dataclass default 0 is used.  pos is
\* the device position (the future) that produced the record.
ExecutionResult(p, device, command, status, output, error) ==
    [pos |-> p, device |-> device, command |-> command, status |-> status,
     output |-> output, error |-> error, retries |-> 0]

is_success(r) == r.status = SUCCESS

\* Lists in which names appear in first-use order: every pattern of equal
\* and distinct entries of a list is covered once.
IsCanonical(s, names) ==
    \A k \in 1..Len(s) :
        \E j \in 1..Len(names) :
            /\ names[j] = s[k]
            /\ j <= 1 + Cardinality({s[m] : m \in 1..(k - 1)})

Canonical(n, names) ==
    {s \in UNION {[1..m -> {names[j] : j \in 1..Len(names)}] : m \in 0..n} :
        IsCanonical(s, names)}

\* ------------------------------------------------------- ExecutionStats
\* ExecutionStats.__init__
NewStats ==
    [total_devices |-> 0, completed_devices |-> 0, successful_devices |-> 0,
     failed_devices |-> 0, total_commands |-> 0, successful_commands |-> 0,
     failed_commands |-> 0, start_time |-> FALSE, end_time |-> FALSE]

\* ExecutionStats.start
start(s, device_count, command_count) ==
    [s EXCEPT !.total_devices = device_count,
              !.total_commands = device_count * command_count,
              !.start_time = TRUE]

\* ExecutionStats.finish
finish(s) == [s EXCEPT !.end_time = TRUE]

\* ExecutionStats.progress_percentage, a float in the code: its whole part
progress_percentage(s) ==
    IF s.total_devices = 0
    THEN 0
    ELSE (s.completed_devices * 100) \div s.total_devices

\* all(r.is_success for r in results)
all_success(results) == \A k \in 1..Len(results) : is_success(results[k])

\* the "for result in results" loop of record_device_results
RECURSIVE count_commands(_, _, _)
count_commands(s, results, k) ==
    IF k > Len(results) THEN s
    ELSE count_commands(
           IF is_success(results[k])
           THEN [s EXCEPT !.successful_commands = @ + 1]
           ELSE [s EXCEPT !.failed_commands = @ + 1],
           results, k + 1)

\* record_device_results deciding the device's success with any() for all()
record_device_results_any(s, results) ==
    LET s1 == [s EXCEPT !.completed_devices = @ + 1]
        s2 == IF \E k \in 1..Len(results) : is_success(results[k])
              THEN [s1 EXCEPT !.successful_devices = @ + 1]
              ELSE [s1 EXCEPT !.failed_devices = @ + 1]
    IN  count_commands(s2, results, 1)

\* record_device_results that leaves failed_devices alone
record_device_results_failed_uncounted(s, results) ==
    LET s1 == [s EXCEPT !.completed_devices = @ + 1]
        s2 == IF all_success(results)
              THEN [s1 EXCEPT !.successful_devices = @ + 1]
              ELSE s1
    IN  count_commands(s2, results, 1)

\* ExecutionStats.record_device_results
record_device_results(s, results) ==
    LET s1 == [s EXCEPT !.completed_devices = @ + 1]
        s2 == IF all_success(results)
              THEN [s1 EXCEPT !.successful_devices = @ + 1]
              ELSE [s1 EXCEPT !.failed_devices = @ + 1]
    IN  count_commands(s2, results, 1)

\* ------------------------------------------------ SSHConnection / session
\* Command.timeout when the caller sets none
DefaultTimeout == 60

\* Command.timeout of a command of the list: the first text stands for a
\* command left at the default, the other for one with a longer timeout
timeout(command) ==
    IF command = CommandTexts[1] THEN DefaultTimeout ELSE 2 * DefaultTimeout

\* the timeout execute_command hands to connection.send_command: the call is
\* send_command(command.command), no timeout is given and the transport uses
\* its own
send_command_timeout(command) == [given |-> FALSE, seconds |-> 0]

\* SSHConfig.max_retries when the caller passes no ssh_config
DefaultMaxRetries == 3

\* The submitted call before a worker has picked it up.
NewUnit ==
    [phase |-> "queued", attempt |-> 0, connected |-> FALSE, idx |-> 0,
     results |-> <<>>, exc |-> "none", log |-> <<>>, sleeps |-> 0,
     sent |-> <<>>]

\* execute_command keeping the text received before a timeout
execute_command_partial_output(p, command, outcome) ==
    IF outcome = "ok"
    THEN ExecutionResult(p, devices[p], command, SUCCESS, "out", "None")
    ELSE IF outcome = "timeout"
    THEN ExecutionResult(p, devices[p], command, TIMEOUT, "out", "Command timeout")
    ELSE ExecutionResult(p, devices[p], command, FAILED, "", "Command execution error")

\* execute_command reporting a timed-out command as still running
execute_command_transient(p, command, outcome) ==
    IF outcome = "ok"
    THEN ExecutionResult(p, devices[p], command, SUCCESS, "out", "None")
    ELSE IF outcome = "timeout"
    THEN ExecutionResult(p, devices[p], command, RUNNING, "", "Command timeout")
    ELSE ExecutionResult(p, devices[p], command, FAILED, "", "Command execution error")

\* SSHConnection.execute_command: the result built from what send_command did
execute_command(p, command, outcome) ==
    IF outcome = "ok"
    THEN ExecutionResult(p, devices[p], command, SUCCESS, "out", "None")
    ELSE IF outcome = "timeout"
    THEN ExecutionResult(p, devices[p], command, TIMEOUT, "", "Command timeout")
    ELSE ExecutionResult(p, devices[p], command, FAILED, "", "Command execution error")

\* "for command in commands: results.append(...)" of the authentication branch
RECURSIVE fail_all(_, _, _, _, _)
fail_all(p, results, k, status, error) ==
    IF k > C THEN results
    ELSE fail_all(p,
                  Append(results,
                         ExecutionResult(p, devices[p], commands[k], status, "", error)),
                  k + 1, status, error)

\* "for command in commands: if not any(r.command == command for r in results)"
\* of the timeout branch and of the generic branch
RECURSIVE fail_remaining(_, _, _, _, _)
fail_remaining(p, results, k, status, error) ==
    IF k > C THEN results
    ELSE fail_remaining(
           p,
           IF \E j \in 1..Len(results) : results[j].command = commands[k]
           THEN results
           ELSE Append(results,
                       ExecutionResult(p, devices[p], commands[k], status, "", error)),
           k + 1, status, error)

\* the three except branches of execute_commands_on_device
synthesize(p, results, exc) ==
    IF exc = "auth"
    THEN fail_all(p, results, 1, FAILED, "Authentication failed")
    ELSE IF exc = "timeout"
    THEN fail_remaining(p, results, 1, TIMEOUT, "Connection timeout")
    ELSE fail_remaining(p, results, 1, FAILED, "Connection error")

\* no Device construction is being followed
NoDevice ==
    [pc |-> "off", args |-> [hostname |-> "", port |-> 0], hostname |-> "",
     port |-> 0, exc |-> "none", write |-> <<>>]

\* execute_on_devices called directly, not from execute_on_device_batches
NoBatch ==
    [pc |-> "off", devices |-> <<>>, batch_size |-> 0, i |-> 0,
     all_results |-> <<>>, stats |-> NewStats,
     single_results |-> <<>>, single_stats |-> NewStats]

\* no connect_with_retry call of the legacy script is being followed
NoLegacy ==
    [pc |-> "off", retry_enabled |-> FALSE, tenacity |-> FALSE, attempt |-> 0,
     calls |-> 0, log |-> <<>>, idx |-> 0, results |-> <<>>, exc |-> "none"]

\* ----------------------------------------------------------------- Init
\* The state at the call of execute_on_devices.  A pool larger than the device
\* list behaves like one of the list's size, so such sizes are left out.
Init ==
    /\ devices \in Canonical(MaxDevices, DeviceNames)
    /\ commands \in Canonical(MaxCommands, CommandTexts)
    /\ max_workers \in (-1)..MaxWorkers
    /\ max_workers <= IF Len(devices) = 0 THEN 1 ELSE Len(devices)
    /\ max_retries \in 0..MaxRetriesBound
    /\ has_callback \in BOOLEAN
    /\ Len(devices) * Len(devices) * (max_retries + Len(commands) + 2) <= MaxWork
    /\ pc = "start"
    /\ main_exc = "none"
    /\ cur = 0
    /\ processed = {}
    /\ unit = [p \in 1..Len(devices) |-> NewUnit]
    /\ all_results = <<>>
    /\ stats = NewStats
    /\ cb_calls = <<>>
    /\ batch = NoBatch
    /\ made = NoDevice
    /\ legacy = NoLegacy

\* --------------------------------------------------------------- workers
\* ThreadPoolExecutor: at most max_workers submitted calls run at a time
Running == {p \in Positions : unit[p].phase \notin {"queued", "done", "failed"}}

\* the pool without its max_workers limit
worker_free_unbounded == TRUE

\* a pool thread is idle or may still be created
worker_free == Cardinality(Running) < max_workers

\* the submitted call has returned ("done") or raised ("failed")
Finished(u) == u.phase \in {"done", "failed"}

\* SSHConnection.connect up to the first ConnectHandler call: with
\* max_retries < 1 the range is empty and connect returns without connecting
enter_connect(u) ==
    IF max_retries >= 1
    THEN [u EXCEPT !.phase = "connecting", !.attempt = 1]
    ELSE [u EXCEPT !.phase = "executing"]

\* connect without the "except NetmikoAuthenticationException: raise" clause
connect_attempt_auth_retried(u, outcome) ==
    LET v == [u EXCEPT !.log = Append(@, outcome)]
    IN  IF outcome = "ok"
        THEN [v EXCEPT !.connected = TRUE, !.phase = "executing"]
        ELSE IF u.attempt < max_retries
        THEN [v EXCEPT !.phase = "sleeping"]
        ELSE [v EXCEPT !.exc = outcome, !.phase = "raised"]

\* connect sleeping once more before it gives up
connect_attempt_delay_after_last(u, outcome) ==
    LET v == [u EXCEPT !.log = Append(@, outcome)]
    IN  IF outcome = "ok"
        THEN [v EXCEPT !.connected = TRUE, !.phase = "executing"]
        ELSE IF outcome = "auth"
        THEN [v EXCEPT !.exc = "auth", !.phase = "raised"]
        ELSE IF u.attempt < max_retries
        THEN [v EXCEPT !.phase = "sleeping"]
        ELSE [v EXCEPT !.exc = outcome, !.phase = "raised", !.sleeps = @ + 1]

\* connect retrying timeouts only
connect_attempt_error_not_retried(u, outcome) ==
    LET v == [u EXCEPT !.log = Append(@, outcome)]
    IN  IF outcome = "ok"
        THEN [v EXCEPT !.connected = TRUE, !.phase = "executing"]
        ELSE IF outcome = "timeout" /\ u.attempt < max_retries
        THEN [v EXCEPT !.phase = "sleeping"]
        ELSE [v EXCEPT !.exc = outcome, !.phase = "raised"]

\* connect raising on the first timeout instead of retrying
connect_attempt_no_retry(u, outcome) ==
    LET v == [u EXCEPT !.log = Append(@, outcome)]
    IN  IF outcome = "ok"
        THEN [v EXCEPT !.connected = TRUE, !.phase = "executing"]
        ELSE [v EXCEPT !.exc = outcome, !.phase = "raised"]

\* one iteration of the retry loop of SSHConnection.connect, given what
\* ConnectHandler(**device_params) did
connect_attempt(u, outcome) ==
    LET v == [u EXCEPT !.log = Append(@, outcome)]
    IN  IF outcome = "ok"
        THEN [v EXCEPT !.connected = TRUE, !.phase = "executing"]
        ELSE IF outcome = "auth"
        THEN [v EXCEPT !.exc = "auth", !.phase = "raised"]
        ELSE IF u.attempt < max_retries
        THEN [v EXCEPT !.phase = "sleeping"]
        ELSE [v EXCEPT !.exc = outcome, !.phase = "raised"]

\* time.sleep(retry_delay); continue
retry_delay(u) ==
    [u EXCEPT !.sleeps = @ + 1, !.attempt = @ + 1, !.phase = "connecting"]

\* a failed command dropping the session, which aborts the rest of the sequence
run_command_abort_on_failure(p, u, outcome) ==
    IF ~u.connected
    THEN [u EXCEPT !.exc = "error", !.phase = "raised"]
    ELSE [u EXCEPT !.sent = Append(@, [command |-> commands[u.idx + 1],
                                       outcome |-> outcome]),
                   !.results = Append(@, execute_command(p, commands[u.idx + 1],
                                                         outcome)),
                   !.idx = @ + 1,
                   !.connected = (outcome = "ok")]

\* execute_command without its connection test: the send is tried anyway
run_command_unconnected_sends(p, u, outcome) ==
    [u EXCEPT !.sent = Append(@, [command |-> commands[u.idx + 1],
                                  outcome |-> outcome]),
              !.results = Append(@, execute_command(p, commands[u.idx + 1],
                                                    outcome)),
              !.idx = @ + 1]

\* a session that sends a command again after it failed
run_command_resend_failed(p, u, outcome) ==
    IF ~u.connected
    THEN [u EXCEPT !.exc = "error", !.phase = "raised"]
    ELSE IF outcome # "ok"
    THEN [u EXCEPT !.sent = Append(Append(@, [command |-> commands[u.idx + 1],
                                              outcome |-> outcome]),
                                   [command |-> commands[u.idx + 1],
                                    outcome |-> outcome]),
                   !.results = Append(@, execute_command(p, commands[u.idx + 1],
                                                         outcome)),
                   !.idx = @ + 1]
    ELSE [u EXCEPT !.sent = Append(@, [command |-> commands[u.idx + 1],
                                       outcome |-> outcome]),
                   !.results = Append(@, execute_command(p, commands[u.idx + 1],
                                                         outcome)),
                   !.idx = @ + 1]

\* a session that stops sending once its transport is lost
run_command_broken_state(p, u, outcome) ==
    IF ~u.connected
    THEN [u EXCEPT !.exc = "error", !.phase = "raised"]
    ELSE IF \E k \in 1..Len(u.sent) : u.sent[k].outcome = "lost"
    THEN [u EXCEPT !.results = Append(@, execute_command(p, commands[u.idx + 1],
                                                         outcome)),
                   !.idx = @ + 1]
    ELSE [u EXCEPT !.sent = Append(@, [command |-> commands[u.idx + 1],
                                       outcome |-> outcome]),
                   !.results = Append(@, execute_command(p, commands[u.idx + 1],
                                                         outcome)),
                   !.idx = @ + 1]

\* one iteration of "for command in commands" inside the with block
run_command(p, u, outcome) ==
    IF ~u.connected
    THEN \* execute_command raises RuntimeError("Not connected to device");
         \* __exit__ finds nothing to close
         [u EXCEPT !.exc = "error", !.phase = "raised"]
    ELSE [u EXCEPT !.sent = Append(@, [command |-> commands[u.idx + 1],
                                       outcome |-> outcome]),
                   !.results = Append(@, execute_command(p, commands[u.idx + 1],
                                                         outcome)),
                   !.idx = @ + 1]

\* a teardown that forgets the session it closed
disconnect_keeps_session(u, outcome) ==
    IF ~u.connected \/ outcome = "ok"
    THEN [u EXCEPT !.phase = "done"]
    ELSE [u EXCEPT !.phase = "close_failed"]

\* SSHConnection.__exit__ -> disconnect: nothing to close unless connected;
\* otherwise connection.disconnect() is called and may raise
disconnect(u, outcome) ==
    IF ~u.connected
    THEN [u EXCEPT !.phase = "done"]
    ELSE IF outcome = "ok"
    THEN [u EXCEPT !.connected = FALSE, !.phase = "done"]
    ELSE [u EXCEPT !.phase = "close_failed"]

\* a failed close leaving disconnect as an exception
swallow_close_error_propagates(u) ==
    [u EXCEPT !.connected = FALSE, !.exc = "error", !.phase = "raised"]

\* "except Exception: pass" and the finally block of disconnect, then
\* "return results"
swallow_close_error(u) ==
    [u EXCEPT !.connected = FALSE, !.phase = "done"]

\* A free worker takes the oldest submitted call and enters connect()
WorkerStart(p) ==
    /\ pc \notin {"start", "pool", "raised"}
    /\ unit[p].phase = "queued"
    /\ \A q \in Positions : q < p => unit[q].phase # "queued"
    /\ worker_free
    /\ unit' = [unit EXCEPT ![p] = enter_connect(@)]
    /\ UNCHANGED <<legacy, made, batch, inputs, pc, main_exc, cur, processed, all_results, stats, cb_calls>>

ConnectAttempt(p) ==
    /\ unit[p].phase = "connecting"
    /\ \E outcome \in {"ok", "auth", "timeout", "error"} :
         unit' = [unit EXCEPT ![p] = connect_attempt(@, outcome)]
    /\ UNCHANGED <<legacy, made, batch, inputs, pc, main_exc, cur, processed, all_results, stats, cb_calls>>

RetryDelay(p) ==
    /\ unit[p].phase = "sleeping"
    /\ unit' = [unit EXCEPT ![p] = retry_delay(@)]
    /\ UNCHANGED <<legacy, made, batch, inputs, pc, main_exc, cur, processed, all_results, stats, cb_calls>>

\* the transport of the session died under an earlier send_command
transport_lost(u) == \E k \in 1..Len(u.sent) : u.sent[k].outcome = "lost"

\* what connection.send_command(command.command) can do: return the output,
\* raise NetmikoTimeoutException, raise another error with the transport still
\* up ("error"), or raise because the transport is gone ("lost"), which every
\* later send on that connection then does too
send_outcomes(u) ==
    IF transport_lost(u) THEN {"lost"} ELSE {"ok", "timeout", "error", "lost"}

RunCommand(p) ==
    /\ unit[p].phase = "executing"
    /\ unit[p].idx < C
    /\ \E outcome \in send_outcomes(unit[p]) :
         unit' = [unit EXCEPT ![p] = run_command(p, @, outcome)]
    /\ UNCHANGED <<legacy, made, batch, inputs, pc, main_exc, cur, processed, all_results, stats, cb_calls>>

Disconnect(p) ==
    /\ unit[p].phase = "executing"
    /\ unit[p].idx = C
    /\ \E outcome \in {"ok", "failed"} :
         unit' = [unit EXCEPT ![p] = disconnect(@, outcome)]
    /\ UNCHANGED <<legacy, made, batch, inputs, pc, main_exc, cur, processed, all_results, stats, cb_calls>>

SwallowCloseError(p) ==
    /\ unit[p].phase = "close_failed"
    /\ unit' = [unit EXCEPT ![p] = swallow_close_error(@)]
    /\ UNCHANGED <<legacy, made, batch, inputs, pc, main_exc, cur, processed, all_results, stats, cb_calls>>

\* an except branch of execute_commands_on_device itself raising (building the
\* failure results, str(e)): the exception leaves the call and is stored in
\* the future
handler_raises(u) == [u EXCEPT !.phase = "failed"]

HandlerRaises(p) ==
    /\ unit[p].phase = "raised"
    /\ unit' = [unit EXCEPT ![p] = handler_raises(@)]
    /\ UNCHANGED <<legacy, made, batch, inputs, pc, main_exc, cur, processed, all_results, stats, cb_calls>>

\* the except branches of execute_commands_on_device, then "return results"
HandleConnectError(p) ==
    /\ unit[p].phase = "raised"
    /\ unit' = [unit EXCEPT ![p] =
                  [@ EXCEPT !.results = synthesize(p, @, unit[p].exc),
                            !.phase = "done"]]
    /\ UNCHANGED <<legacy, made, batch, inputs, pc, main_exc, cur, processed, all_results, stats, cb_calls>>

\* ------------------------------------------------- execute_on_devices
\* stats = ExecutionStats(); stats.start(...); all_results = []
Start ==
    /\ pc = "start"
    /\ stats' = start(NewStats, D, C)
    /\ all_results' = <<>>
    /\ pc' = "pool"
    /\ UNCHANGED <<legacy, made, batch, inputs, main_exc, cur, processed, unit, cb_calls>>

\* a pool constructor that only rejects negative sizes
pool_rejects_negative(w) == w < 0

\* ThreadPoolExecutor(max_workers=...) raises ValueError for max_workers <= 0
pool_rejects(w) == w <= 0

CreatePoolFails ==
    /\ pc = "pool"
    /\ pool_rejects(max_workers)
    /\ pc' = "raised"
    /\ main_exc' = "ValueError"
    /\ UNCHANGED <<legacy, made, batch, inputs, cur, processed, unit, all_results, stats, cb_calls>>

\* the dict comprehension submitting one call per device
SubmitAll ==
    /\ pc = "pool"
    /\ ~pool_rejects(max_workers)
    /\ pc' = "collect"
    /\ UNCHANGED <<legacy, made, batch, inputs, main_exc, cur, processed, unit, all_results, stats, cb_calls>>

\* future.result() re-raises the call's exception inside the try block, whose
\* "except Exception" catches it
on_future_exception == "except"

\* as_completed yields a finished future; the try block up to the callback
Collect(p) ==
    /\ pc = "collect"
    /\ p \notin processed
    /\ Finished(unit[p])
    /\ processed' = processed \cup {p}
    /\ cur' = p
    /\ IF unit[p].phase = "done"
       THEN /\ all_results' = all_results \o unit[p].results
            /\ stats' = record_device_results(stats, unit[p].results)
            /\ pc' = IF has_callback THEN "callback" ELSE "collect"
       ELSE /\ pc' = on_future_exception
            /\ UNCHANGED <<all_results, stats>>
    /\ UNCHANGED <<legacy, made, batch, inputs, main_exc, unit, cb_calls>>

CallbackCall(raised) ==
    [pos |-> cur, raised |-> raised, stats |-> stats,
     collected |-> Len(all_results)]

\* progress_callback(stats, device, results) returns
CallbackReturns ==
    /\ pc = "callback"
    /\ cb_calls' = Append(cb_calls, CallbackCall(FALSE))
    /\ pc' = "collect"
    /\ UNCHANGED <<legacy, made, batch, inputs, main_exc, cur, processed, unit, all_results, stats>>

\* progress_callback(stats, device, results) raises inside the try block
CallbackRaises ==
    /\ pc = "callback"
    /\ cb_calls' = Append(cb_calls, CallbackCall(TRUE))
    /\ pc' = "except"
    /\ UNCHANGED <<legacy, made, batch, inputs, main_exc, cur, processed, unit, all_results, stats>>

\* the "except Exception" block up to its callback
failed_results(p) == fail_all(p, <<>>, 1, FAILED, "Executor error")

ExceptBlock ==
    /\ pc = "except"
    /\ all_results' = all_results \o failed_results(cur)
    /\ stats' = record_device_results(stats, failed_results(cur))
    /\ pc' = IF has_callback THEN "callback_except" ELSE "collect"
    /\ UNCHANGED <<legacy, made, batch, inputs, main_exc, cur, processed, unit, cb_calls>>

\* progress_callback(stats, device, failed_results) returns
ExceptCallbackReturns ==
    /\ pc = "callback_except"
    /\ cb_calls' = Append(cb_calls, CallbackCall(FALSE))
    /\ pc' = "collect"
    /\ UNCHANGED <<legacy, made, batch, inputs, main_exc, cur, processed, unit, all_results, stats>>

\* progress_callback raises inside the except block: the exception leaves the
\* loop
ExceptCallbackRaises ==
    /\ pc = "callback_except"
    /\ cb_calls' = Append(cb_calls, CallbackCall(TRUE))
    /\ pc' = "unwinding"
    /\ UNCHANGED <<legacy, made, batch, inputs, main_exc, cur, processed, unit, all_results, stats>>

\* an exception leaving the loop: the with block waits for the pool
\* (shutdown(wait=True)), then the exception leaves execute_on_devices
Unwind ==
    /\ pc = "unwinding"
    /\ \A p \in Positions : Finished(unit[p])
    /\ pc' = "raised"
    /\ main_exc' = "callback"
    /\ UNCHANGED <<legacy, made, batch, inputs, cur, processed, unit, all_results, stats, cb_calls>>

\* loop exhausted, pool shut down; stats.finish(); return all_results, stats
Return ==
    /\ pc = "collect"
    /\ processed = Positions
    /\ stats' = finish(stats)
    /\ pc' = "returned"
    /\ UNCHANGED <<legacy, made, batch, inputs, main_exc, cur, processed, unit, all_results, cb_calls>>

Next ==
    \/ Start
    \/ CreatePoolFails
    \/ SubmitAll
    \/ \E p \in Positions : WorkerStart(p)
    \/ \E p \in Positions : ConnectAttempt(p)
    \/ \E p \in Positions : RetryDelay(p)
    \/ \E p \in Positions : RunCommand(p)
    \/ \E p \in Positions : Disconnect(p)
    \/ \E p \in Positions : SwallowCloseError(p)
    \/ \E p \in Positions : HandlerRaises(p)
    \/ \E p \in Positions : HandleConnectError(p)
    \/ \E p \in Positions : Collect(p)
    \/ CallbackReturns
    \/ CallbackRaises
    \/ ExceptBlock
    \/ ExceptCallbackReturns
    \/ ExceptCallbackRaises
    \/ Unwind
    \/ Return

Spec == Init /\ [][Next]_vars

\* ------------------------------------------- execute_on_device_batches
\* The frame of execute_on_device_batches is the record batch: pc, the
\* arguments devices and batch_size, the loop variable i, all_results, stats.
\* Its fields single_results and single_stats keep what one execute_on_devices
\* call over all the devices collects and records when every device behaves as
\* it did in its chunk: the chunks' collections in order, and the sum of the
\* chunks' own counters.
InitBatches ==
    /\ batch \in [pc : {"start"},
                  devices : Canonical(MaxDevices, DeviceNames),
                  batch_size : (-1)..MaxBatchSize,
                  i : {0},
                  all_results : {<<>>},
                  stats : {NewStats},
                  single_results : {<<>>},
                  single_stats : {NewStats}]
    /\ devices = <<>>
    /\ commands \in Canonical(MaxCommands, CommandTexts)
    /\ max_workers \in (-1)..MaxWorkers
    /\ max_workers <= IF Len(batch.devices) = 0 THEN 1 ELSE Len(batch.devices)
    /\ max_retries \in 0..MaxRetriesBound
    /\ has_callback \in BOOLEAN
    /\ Len(batch.devices) * (max_retries + Len(commands) + 2) <= MaxBatchWork
    /\ pc = "idle"
    /\ main_exc = "none"
    /\ cur = 0
    /\ processed = {}
    /\ unit = <<>>
    /\ all_results = <<>>
    /\ stats = NewStats
    /\ cb_calls = <<>>
    /\ made = NoDevice
    /\ legacy = NoLegacy

\* stats = ExecutionStats(); stats.start(...); all_results = []; entering
\* "for i in range(0, len(devices), batch_size)", which raises ValueError for
\* a zero step
BatchStart ==
    /\ batch.pc = "start"
    /\ batch' = [batch EXCEPT
                   !.stats = start(NewStats, Len(batch.devices), C),
                   !.all_results = <<>>,
                   !.i = 0,
                   !.pc = IF batch.batch_size = 0 THEN "raised" ELSE "loop"]
    /\ UNCHANGED <<legacy, made, inputs, pc, main_exc, cur, processed, unit, all_results, stats,
                   cb_calls>>

\* range(0, len(devices), batch_size) has a next i
more_batches == batch.batch_size > 0 /\ batch.i < Len(batch.devices)

\* devices[i:i + batch_size]
batch_devices ==
    SubSeq(batch.devices, batch.i + 1,
           IF batch.i + batch.batch_size < Len(batch.devices)
           THEN batch.i + batch.batch_size ELSE Len(batch.devices))

\* the call execute_on_devices(batch_devices, commands, ...)
BatchCall ==
    /\ batch.pc = "loop"
    /\ more_batches
    /\ devices' = batch_devices
    /\ unit' = [p \in 1..Len(batch_devices) |-> NewUnit]
    /\ pc' = "start"
    /\ main_exc' = "none"
    /\ cur' = 0
    /\ processed' = {}
    /\ all_results' = <<>>
    /\ stats' = NewStats
    /\ batch' = [batch EXCEPT !.pc = "running"]
    /\ UNCHANGED <<legacy, made, commands, max_workers, max_retries, has_callback, cb_calls>>

\* "for device in batch_devices: device_results = [r for r in batch_results
\* if r.device == device]; stats.record_device_results(device_results)"
RECURSIVE record_batch(_, _, _)
record_batch(s, batch_results, k) ==
    IF k > Len(devices) THEN s
    ELSE record_batch(
           record_device_results(
               s, SelectSeq(batch_results, LAMBDA r : r.device = devices[k])),
           batch_results, k + 1)

\* the counters of s and t added
add_counters(s, t) ==
    [s EXCEPT !.completed_devices = @ + t.completed_devices,
              !.successful_devices = @ + t.successful_devices,
              !.failed_devices = @ + t.failed_devices,
              !.successful_commands = @ + t.successful_commands,
              !.failed_commands = @ + t.failed_commands]

\* execute_on_devices returned: the rest of the loop body
BatchMerge ==
    /\ batch.pc = "running"
    /\ pc = "returned"
    /\ batch' = [batch EXCEPT
                   !.all_results = @ \o all_results,
                   !.stats = record_batch(@, all_results, 1),
                   !.i = @ + batch.batch_size,
                   !.single_results = @ \o all_results,
                   !.single_stats = add_counters(@, stats),
                   !.pc = "loop"]
    /\ pc' = "idle"
    /\ UNCHANGED <<legacy, made, inputs, main_exc, cur, processed, unit, all_results, stats,
                   cb_calls>>

\* execute_on_devices raised: nothing catches it
BatchRaise ==
    /\ batch.pc = "running"
    /\ pc = "raised"
    /\ batch' = [batch EXCEPT !.pc = "raised"]
    /\ pc' = "idle"
    /\ UNCHANGED <<legacy, made, inputs, main_exc, cur, processed, unit, all_results, stats,
                   cb_calls>>

\* stats.finish(); return all_results, stats
BatchReturn ==
    /\ batch.pc = "loop"
    /\ ~more_batches
    /\ batch' = [batch EXCEPT !.stats = finish(@), !.pc = "returned"]
    /\ UNCHANGED <<legacy, made, inputs, pc, main_exc, cur, processed, unit, all_results, stats,
                   cb_calls>>

NextBatches ==
    \/ Next
    \/ BatchStart
    \/ BatchCall
    \/ BatchMerge
    \/ BatchRaise
    \/ BatchReturn

SpecBatches == InitBatches /\ [][NextBatches]_vars

\* --------------------------------------------------------------- Device
\* The port range of Device.__post_init__
MinPort == 1
MaxPort == 65535

\* The hostnames and ports tried: the empty string, a blank and the names
\* of the engine's devices; the ports within PortMargin of either limit.
Hostnames == {"", " "} \cup {DeviceNames[j] : j \in 1..Len(DeviceNames)}

Ports ==
    ((MinPort - PortMargin)..(MinPort + PortMargin))
        \cup ((MaxPort - PortMargin)..(MaxPort + PortMargin))

\* Device(hostname=..., port=...) has been called: the generated __init__ has
\* stored the arguments and __post_init__ is about to run
InitDevice ==
    /\ made \in [pc : {"post_init"},
                 args : [hostname : Hostnames, port : Ports],
                 hostname : Hostnames, port : Ports,
                 exc : {"none"}, write : {<<>>}]
    /\ made.hostname = made.args.hostname
    /\ made.port = made.args.port
    /\ devices = <<>>
    /\ commands = <<>>
    /\ max_workers = 1
    /\ max_retries = 0
    /\ has_callback = FALSE
    /\ pc = "idle"
    /\ main_exc = "none"
    /\ cur = 0
    /\ processed = {}
    /\ unit = <<>>
    /\ all_results = <<>>
    /\ stats = NewStats
    /\ cb_calls = <<>>
    /\ batch = NoBatch
    /\ legacy = NoLegacy

\* a validation that lets port 0 through
post_init_port_zero(hostname, port) ==
    IF hostname = "" THEN "ValueError"
    ELSE IF port < 0 \/ port > MaxPort THEN "ValueError"
    ELSE "none"

\* Device.__post_init__: the exception it raises, if any
post_init(hostname, port) ==
    IF hostname = "" THEN "ValueError"
    ELSE IF port < MinPort \/ port > MaxPort THEN "ValueError"
    ELSE "none"

\* __post_init__ returns and the caller holds the Device, or it raises and
\* the caller holds nothing
PostInit ==
    /\ made.pc = "post_init"
    /\ made' = [made EXCEPT
                  !.exc = post_init(made.hostname, made.port),
                  !.pc = IF post_init(made.hostname, made.port) = "none"
                         THEN "device" ELSE "raised"]
    /\ UNCHANGED <<legacy, inputs, pc, main_exc, cur, processed, unit, all_results, stats,
                   cb_calls, batch>>

\* an assignment to a field of the frozen dataclass: __setattr__ raises
\* FrozenInstanceError and stores nothing
SetField ==
    /\ made.pc = "device"
    /\ \E field \in {"hostname", "port"} :
         \E value \in (IF field = "hostname" THEN Hostnames ELSE Ports) :
            made' = [made EXCEPT !.exc = "FrozenInstanceError",
                                 !.write = <<field, value>>]
    /\ UNCHANGED <<legacy, inputs, pc, main_exc, cur, processed, unit, all_results, stats,
                   cb_calls, batch>>

NextDevice ==
    \/ PostInit
    \/ SetField

SpecDevice == InitDevice /\ [][NextDevice]_vars

\* ------------------------------------------- ExecutionStats as an object
\* One ExecutionStats object and its three methods, called as both callers
\* do (executor.py 115-116 and 201-202): start once on the fresh object,
\* then record_device_results and finish.  MaxRecords bounds the calls of
\* record_device_results.
MaxRecords == 3

\* the statuses the engine gives a finished command
RecordedStatuses == {SUCCESS, FAILED, TIMEOUT}

\* the result lists handed to record_device_results
ResultLists ==
    UNION {[1..m -> {ExecutionResult(1, DeviceNames[1], CommandTexts[1], st, "", "")
                       : st \in RecordedStatuses}] : m \in 0..MaxCommands}

InitStats ==
    /\ stats = NewStats
    /\ devices = <<>>
    /\ commands = <<>>
    /\ max_workers = 1
    /\ max_retries = 0
    /\ has_callback = FALSE
    /\ pc = "idle"
    /\ main_exc = "none"
    /\ cur = 0
    /\ processed = {}
    /\ unit = <<>>
    /\ all_results = <<>>
    /\ cb_calls = <<>>
    /\ batch = NoBatch
    /\ made = NoDevice
    /\ legacy = NoLegacy

\* stats.start(len(devices), len(commands))
StatsStart ==
    /\ ~stats.start_time
    /\ \E device_count \in 0..MaxDevices :
         \E command_count \in 0..MaxCommands :
            stats' = start(stats, device_count, command_count)
    /\ UNCHANGED <<legacy, made, batch, inputs, pc, main_exc, cur, processed, unit,
                   all_results, cb_calls>>

\* stats.record_device_results(device, results)
StatsRecord ==
    /\ stats.completed_devices < MaxRecords
    /\ \E results \in ResultLists :
         stats' = record_device_results(stats, results)
    /\ UNCHANGED <<legacy, made, batch, inputs, pc, main_exc, cur, processed, unit,
                   all_results, cb_calls>>

\* stats.finish()
StatsFinish ==
    /\ stats' = finish(stats)
    /\ UNCHANGED <<legacy, made, batch, inputs, pc, main_exc, cur, processed, unit,
                   all_results, cb_calls>>

NextStats ==
    \/ StatsStart
    \/ StatsRecord
    \/ StatsFinish

SpecStats == InitStats /\ [][NextStats]_vars

\* ------------------------------------------- legacy connect_with_retry
\* netmiko_collector.py (the single-file script): connect_with_retry and the
\* connect_and_execute call it makes for one device.  The frame is the record
\* legacy: pc, the argument retry_enabled, the flag TENACITY_AVAILABLE, the
\* retry decorator's attempt number, the number of connect_and_execute calls,
\* the outcome of every ConnectHandler call in order (log), the position in
\* the command loop and the results list.  enable mode is left out: its
\* failure is logged and changes nothing.
MAX_RETRY_ATTEMPTS == 3

LegacyRecord(command, status, output) ==
    [command |-> command, status |-> status, output |-> output]

\* the "for command in commands: results.append({... "failed"})" loop of
\* the three except clauses
RECURSIVE legacy_fail_all(_, _, _)
legacy_fail_all(results, k, error_msg) ==
    IF k > C THEN results
    ELSE legacy_fail_all(
           Append(results, LegacyRecord(commands[k], "failed", error_msg)),
           k + 1, error_msg)

\* the except clause of connect_and_execute that catches the exception
legacy_error_msg(exception) ==
    IF exception = "timeout" THEN "Connection timeout - device unreachable"
    ELSE IF exception = "auth" THEN "Authentication failed - check credentials"
    ELSE "Unexpected error"

\* what the retry decorator does when the wrapped call ends: retry on the
\* two Netmiko exceptions while attempts remain, re-raise otherwise, and
\* hand a returned value through
retry_decorator(exc, attempt) ==
    IF exc = "none" THEN "return"
    ELSE IF exc \in {"timeout", "auth"} /\ attempt < MAX_RETRY_ATTEMPTS
    THEN "retry"
    ELSE "reraise"

InitLegacy ==
    /\ legacy \in [pc : {"start"}, retry_enabled : BOOLEAN, tenacity : BOOLEAN,
                   attempt : {0}, calls : {0}, log : {<<>>}, idx : {0},
                   results : {<<>>}, exc : {"none"}]
    /\ commands \in Canonical(MaxCommands, CommandTexts)
    /\ devices = <<>>
    /\ max_workers = 1
    /\ max_retries = 0
    /\ has_callback = FALSE
    /\ pc = "idle"
    /\ main_exc = "none"
    /\ cur = 0
    /\ processed = {}
    /\ unit = <<>>
    /\ all_results = <<>>
    /\ stats = NewStats
    /\ cb_calls = <<>>
    /\ batch = NoBatch
    /\ made = NoDevice

\* connect_with_retry up to the first connect_and_execute call, wrapped by
\* the retry decorator or direct; connect_and_execute up to its try block
LegacyCall ==
    /\ legacy.pc = "start"
    /\ legacy' = [legacy EXCEPT
                    !.pc = "connect",
                    !.attempt = IF legacy.retry_enabled /\ legacy.tenacity
                                THEN 1 ELSE 0,
                    !.calls = 1,
                    !.results = <<>>]
    /\ UNCHANGED <<made, batch, inputs, pc, main_exc, cur, processed, unit,
                   all_results, stats, cb_calls>>

\* connection = ConnectHandler(**device_params): it returns, or it raises
\* and one of the three except clauses appends a failed record per command
LegacyConnect ==
    /\ legacy.pc = "connect"
    /\ \E outcome \in {"ok", "timeout", "auth", "error"} :
         legacy' =
           IF outcome = "ok"
           THEN [legacy EXCEPT !.log = Append(@, outcome), !.pc = "session",
                               !.idx = 0]
           ELSE [legacy EXCEPT
                   !.log = Append(@, outcome),
                   !.results = legacy_fail_all(legacy.results, 1,
                                               legacy_error_msg(outcome)),
                   !.pc = "return"]
    /\ UNCHANGED <<made, batch, inputs, pc, main_exc, cur, processed, unit,
                   all_results, stats, cb_calls>>

\* one turn of "for command in commands": send_command returns or raises,
\* and the inner try appends the command's record either way
LegacySendCommand ==
    /\ legacy.pc = "session"
    /\ legacy.idx < C
    /\ \E outcome \in {"ok", "error"} :
         legacy' =
           [legacy EXCEPT
              !.idx = @ + 1,
              !.results =
                 Append(@, IF outcome = "ok"
                           THEN LegacyRecord(commands[legacy.idx + 1],
                                             "success", "out")
                           ELSE LegacyRecord(commands[legacy.idx + 1],
                                             "failed",
                                             "Error executing command"))]
    /\ UNCHANGED <<made, batch, inputs, pc, main_exc, cur, processed, unit,
                   all_results, stats, cb_calls>>

\* connection.disconnect() after the loop, still inside the outer try: it
\* returns, or it raises and the matching except clause appends a failed
\* record per command to the results already collected
LegacyDisconnect ==
    /\ legacy.pc = "session"
    /\ legacy.idx = C
    /\ \E outcome \in {"ok", "timeout", "error"} :
         legacy' =
           IF outcome = "ok"
           THEN [legacy EXCEPT !.pc = "return"]
           ELSE [legacy EXCEPT
                   !.results = legacy_fail_all(legacy.results, 1,
                                               legacy_error_msg(outcome)),
                   !.pc = "return"]
    /\ UNCHANGED <<made, batch, inputs, pc, main_exc, cur, processed, unit,
                   all_results, stats, cb_calls>>

\* "return results" of connect_and_execute, through the retry decorator when
\* it wraps the call, and the return of connect_with_retry.  No exception
\* leaves connect_and_execute (exc stays "none"): each of its except clauses
\* ends in the return statement.
LegacyReturn ==
    /\ legacy.pc = "return"
    /\ retry_decorator(legacy.exc, legacy.attempt) = "return"
    /\ legacy' = [legacy EXCEPT !.pc = "returned"]
    /\ UNCHANGED <<made, batch, inputs, pc, main_exc, cur, processed, unit,
                   all_results, stats, cb_calls>>

NextLegacy ==
    \/ LegacyCall
    \/ LegacyConnect
    \/ LegacySendCommand
    \/ LegacyDisconnect
    \/ LegacyReturn

SpecLegacy == InitLegacy /\ [][NextLegacy]_vars

\* ------------------------------------------------------------- fairness
\* execute_on_devices with its threads scheduled: while some step of the
\* calling thread or of a worker is possible, one is eventually taken (every
\* blocking call returns or raises, and the operating system runs every
\* runnable thread).  MaxLiveWork is the step budget of the runs followed.
MaxLiveWork == 8

InitLive ==
    /\ Init
    /\ Len(devices) * (max_retries + Len(commands) + 2) <= MaxLiveWork

SpecLive == InitLive /\ [][Next]_vars /\ WF_vars(Next)

\* ================================================================ claims
CountStatus(results, status) ==
    Cardinality({k \in 1..Len(results) : results[k].status = status})

CountSuccess(results) == CountStatus(results, SUCCESS)

\* the connect attempts of a session so far were all transport timeouts
AllTimeouts(log) == \A k \in 1..Len(log) : log[k] = "timeout"

\* the session's last connect attempt succeeded
ConnectedOnce(u) == Len(u.log) >= 1 /\ u.log[Len(u.log)] = "ok"

\* C1: execute_on_devices returns exactly D*C results, C for each device
\* position, whatever the per-device outcomes (here: without a callback and
\* with at least one connect attempt allowed).
ResultCompleteness ==
    (pc = "returned" /\ ~has_callback /\ max_retries >= 1) =>
        /\ Len(all_results) = D * C
        /\ \A p \in Positions :
             Cardinality({k \in 1..Len(all_results) : all_results[k].pos = p}) = C

\* C2: the i-th result returned for a device refers to the i-th command of the
\* command list, for executed and for synthesized results.
OrderPreservedPerDevice ==
    \A p \in Positions :
        (unit[p].phase = "done" /\ max_retries >= 1) =>
            \A k \in 1..Len(unit[p].results) :
                unit[p].results[k].command = commands[k]

\* C3: with max_retries >= 1, an authentication error on the first connect
\* attempt means one attempt, no retry delay, the error raised, and the
\* session left Disconnected.
NoRetryOnAuth ==
    \A p \in Positions :
        (max_retries >= 1 /\ Len(unit[p].log) >= 1 /\ unit[p].log[1] = "auth") =>
            /\ Len(unit[p].log) = 1
            /\ unit[p].attempt = 1
            /\ unit[p].sleeps = 0
            /\ unit[p].exc = "auth"
            /\ ~unit[p].connected
            /\ unit[p].phase \in {"raised", "done", "failed"}
            /\ unit[p].sent = <<>>

NoRetryOnAuthWitness ==
    \E p \in Positions :
        /\ max_retries = 3
        /\ unit[p].log = <<"auth">>
        /\ unit[p].phase = "raised"

\* C4: a transport that times out k < max_retries times and then succeeds is
\* tried exactly k+1 times; connect does not raise, the session is Connected,
\* and the commands then run normally (one result per command, in order,
\* successful whenever the device answered).
RetryThenSuccess ==
    \A p \in Positions :
        LET u == unit[p] IN
        /\ (AllTimeouts(u.log) /\ Len(u.log) >= 1 /\ Len(u.log) < max_retries) =>
              /\ u.phase \in {"sleeping", "connecting"}
              /\ u.exc = "none"
        /\ (ConnectedOnce(u) /\ AllTimeouts(SubSeq(u.log, 1, Len(u.log) - 1))) =>
              /\ Len(u.log) <= max_retries
              /\ u.attempt = Len(u.log)
              /\ u.sleeps = Len(u.log) - 1
              /\ u.exc = "none"
              /\ u.phase \in {"executing", "close_failed", "done"}
              /\ u.phase \in {"executing", "close_failed"} => u.connected
              /\ Len(u.results) = Len(u.sent)
              /\ u.phase = "done" => Len(u.results) = C
              /\ \A k \in 1..Len(u.results) :
                    /\ u.results[k].command = commands[k]
                    /\ u.sent[k].outcome = "ok" =>
                          /\ u.results[k].status = SUCCESS
                          /\ u.results[k].output = "out"

RetryThenSuccessWitness ==
    \E p \in Positions :
        /\ max_retries = 3
        /\ unit[p].log = <<"timeout", "timeout", "ok">>
        /\ unit[p].phase = "done"
        /\ C >= 1
        /\ \A k \in 1..C : unit[p].results[k].status = SUCCESS

\* C5: every result of a session that connected after k timed-out attempts
\* carries the retry count k.
RetryCountRecorded ==
    \A p \in Positions :
        (ConnectedOnce(unit[p]) /\
         AllTimeouts(SubSeq(unit[p].log, 1, Len(unit[p].log) - 1))) =>
            \A k \in 1..Len(unit[p].results) :
                unit[p].results[k].retries = Len(unit[p].log) - 1

\* C6: when every connect attempt times out, connect makes max_retries
\* attempts and raises the timeout with the session Disconnected, and the
\* device gets one TIMEOUT result ("Connection timeout") per command.
TimeoutAfterAllRetries ==
    \A p \in Positions :
        LET u == unit[p] IN
        (Len(u.log) >= 1 /\ AllTimeouts(u.log) /\ u.phase \in {"raised", "done"}) =>
            /\ Len(u.log) = max_retries
            /\ u.exc = "timeout"
            /\ ~u.connected
            /\ u.phase = "done" =>
                  /\ Len(u.results) = C
                  /\ \A k \in 1..Len(u.results) :
                        /\ u.results[k].status = TIMEOUT
                        /\ u.results[k].error = "Connection timeout"

\* C7: on a connected session a command that times out or fails yields one
\* result for that command (TIMEOUT for a timeout, FAILED otherwise), the
\* session stays Connected, and every later command is still sent and gets
\* its own result; successful commands stay successful.
CommandFailureKeepsSession ==
    \A p \in Positions :
        LET u == unit[p] IN
        ConnectedOnce(u) =>
            /\ Len(u.results) = Len(u.sent)
            /\ u.idx = Len(u.sent)
            /\ \A k \in 1..Len(u.sent) :
                  /\ u.sent[k].command = commands[k]
                  /\ u.results[k].command = commands[k]
                  /\ u.sent[k].outcome = "timeout" => u.results[k].status = TIMEOUT
                  /\ u.sent[k].outcome = "error" => u.results[k].status = FAILED
                  /\ u.sent[k].outcome = "ok" => u.results[k].status = SUCCESS
            /\ u.phase \in {"executing", "close_failed"} => u.connected
            /\ u.phase \in {"executing", "close_failed", "done"}
            /\ u.phase \in {"close_failed", "done"} => Len(u.sent) = C

CommandFailureKeepsSessionWitness ==
    \E p \in Positions :
        /\ unit[p].phase = "done"
        /\ C = 3
        /\ Len(unit[p].sent) = 3
        /\ unit[p].sent[1].outcome = "ok"
        /\ unit[p].sent[2].outcome = "timeout"
        /\ unit[p].sent[3].outcome = "ok"
        /\ unit[p].results[1].status = SUCCESS
        /\ unit[p].results[2].status = TIMEOUT
        /\ unit[p].results[3].status = SUCCESS

\* C8: after an authentication failure every result of the device has the
\* status AUTH_FAILED and empty output.
AuthFailureStatus ==
    \A p \in Positions :
        (unit[p].phase = "done" /\ unit[p].exc = "auth") =>
            \A k \in 1..Len(unit[p].results) :
                /\ unit[p].results[k].status = AUTH_FAILED
                /\ unit[p].results[k].output = ""

\* C9: each record_device_results(results) call adds 1 to completed_devices,
\* 1 to exactly one of successful_devices / failed_devices (successful iff
\* every result is SUCCESS), the number of SUCCESS results to
\* successful_commands, the number of other results to failed_commands, and
\* leaves the totals alone.
RecordStep ==
    LET added == SubSeq(all_results', Len(all_results) + 1, Len(all_results'))
        ok == \A k \in 1..Len(added) : added[k].status = SUCCESS
    IN  /\ stats'.completed_devices = stats.completed_devices + 1
        /\ stats'.successful_devices =
              stats.successful_devices + (IF ok THEN 1 ELSE 0)
        /\ stats'.failed_devices = stats.failed_devices + (IF ok THEN 0 ELSE 1)
        /\ stats'.successful_commands =
              stats.successful_commands + CountSuccess(added)
        /\ stats'.failed_commands =
              stats.failed_commands + (Len(added) - CountSuccess(added))
        /\ stats'.total_devices = stats.total_devices
        /\ stats'.total_commands = stats.total_commands

\* the steps of execute_on_devices that call stats.record_device_results
IsRecordCall ==
    \/ /\ pc = "collect"
       /\ \E p \in processed' \ processed : unit[p].phase = "done"
    \/ pc = "except" /\ pc' # "except"

RecordDeviceResultsEffect == [][IsRecordCall => RecordStep]_vars

RecordDeviceResultsWitness ==
    /\ stats.completed_devices = 2
    /\ stats.successful_devices = 1
    /\ stats.failed_devices = 1
    /\ stats.successful_commands >= 2
    /\ stats.failed_commands >= 1

\* C10: when execute_on_devices returns, total_devices = D, total_commands =
\* D*C, completed_devices = D, successful + failed devices = D, successful +
\* failed commands = D*C, and successful_commands counts the SUCCESS results
\* (here: without a callback and with at least one connect attempt allowed).
FinalStatistics ==
    (pc = "returned" /\ ~has_callback /\ max_retries >= 1) =>
        /\ stats.total_devices = D
        /\ stats.total_commands = D * C
        /\ stats.completed_devices = D
        /\ stats.successful_devices + stats.failed_devices = D
        /\ stats.successful_commands + stats.failed_commands = D * C
        /\ stats.successful_commands = CountSuccess(all_results)

\* the results collected for device position p, in collection order
ResultsAt(p) == SelectSeq(all_results, LAMBDA r : r.pos = p)

\* C11: an exception leaving one device's call is turned into C results with
\* status FAILED and empty output, one per command, for that device, and every
\* other device contributes exactly the results its own call returned.
UnitExceptionConverted ==
    (pc = "returned" /\ \E q \in Positions : unit[q].phase = "failed") =>
        \A p \in Positions :
            IF unit[p].phase = "failed"
            THEN /\ Len(ResultsAt(p)) = C
                 /\ \A k \in 1..Len(ResultsAt(p)) :
                        /\ ResultsAt(p)[k].status = FAILED
                        /\ ResultsAt(p)[k].output = ""
                        /\ ResultsAt(p)[k].command = commands[k]
            ELSE ResultsAt(p) = unit[p].results

\* C12: a supplied progress callback is invoked exactly once for each device:
\* never twice for the same device position, and D times in all by the time
\* execute_on_devices returns.
CallbackOncePerDevice ==
    /\ \A j, k \in 1..Len(cb_calls) :
          j # k => cb_calls[j].pos # cb_calls[k].pos
    /\ (pc = "returned" /\ has_callback) => Len(cb_calls) = D

\* the calls a worker is busy with: connecting, waiting between retries,
\* executing commands, disconnecting or building failure results
InProgress ==
    {p \in Positions :
        unit[p].phase \in {"connecting", "sleeping", "executing", "close_failed",
                           "raised"}}

\* C13: at every moment the number of devices whose call is in progress is at
\* most max_workers (none when max_workers < 1); the other devices wait.
ConcurrencyBound ==
    Cardinality(InProgress) <= (IF max_workers < 1 THEN 0 ELSE max_workers)

ConcurrencyBoundWitness ==
    /\ D = 2
    /\ max_workers = 1
    /\ unit[1].phase = "executing"
    /\ unit[2].phase = "queued"

\* C14: with max_workers < 1 execute_on_devices never returns results: it
\* raises ValueError, no call is started (no connect attempt, no command) and
\* the callback is never invoked.
InvalidConcurrencyRaises ==
    max_workers < 1 =>
        /\ pc \in {"start", "pool", "raised"}
        /\ pc = "raised" => main_exc = "ValueError"
        /\ \A p \in Positions : unit[p] = NewUnit
        /\ cb_calls = <<>>
        /\ all_results = <<>>

InvalidConcurrencyRaisesWitness ==
    /\ max_workers < 1
    /\ D >= 1
    /\ has_callback
    /\ pc = "raised"
    /\ main_exc = "ValueError"

\* the number of times each result occurs in a collection
Multiset(results) ==
    [r \in {results[k] : k \in 1..Len(results)} |->
        Cardinality({k \in 1..Len(results) : results[k] = r})]

\* C15: for batch_size >= 1 execute_on_device_batches returns the same
\* multiset of results and the same final counters as one execute_on_devices
\* call on the same devices and commands with the same per-device outcomes
\* (here: without a callback).
BatchesEquivalent ==
    (batch.pc = "returned" /\ batch.batch_size >= 1 /\ ~has_callback) =>
        /\ Multiset(batch.all_results) = Multiset(batch.single_results)
        /\ batch.stats.total_devices = Len(batch.devices)
        /\ batch.stats.total_commands = Len(batch.devices) * C
        /\ batch.stats.completed_devices = batch.single_stats.completed_devices
        /\ batch.stats.successful_devices = batch.single_stats.successful_devices
        /\ batch.stats.failed_devices = batch.single_stats.failed_devices
        /\ batch.stats.successful_commands = batch.single_stats.successful_commands
        /\ batch.stats.failed_commands = batch.single_stats.failed_commands

\* C16: leaving the with block never raises: whether close succeeds or fails
\* the session ends with phase "done" (possibly through the swallowed failure),
\* not connected, no exception pending, and the collected results unchanged.
DisconnectStep(p) ==
    /\ unit'[p] # unit[p]
    /\ \/ unit[p].phase = "close_failed"
       \/ unit[p].phase = "executing" /\ unit[p].idx = C

DisconnectNeverRaises ==
    [][\A p \in Positions :
          DisconnectStep(p) =>
              /\ unit'[p].results = unit[p].results
              /\ unit'[p].exc = "none"
              /\ \/ unit'[p].phase = "done" /\ ~unit'[p].connected
                 \/ /\ unit[p].phase = "executing"
                    /\ unit'[p].phase = "close_failed"]_vars

DisconnectNeverRaisesWitness ==
    \E p \in Positions :
        /\ unit[p].phase = "close_failed"
        /\ C >= 2
        /\ Len(unit[p].results) = C

\* C17: a call that has finished holds no connected session, whatever its
\* commands did; when execute_on_devices returns no session is connected.
SessionsClosed ==
    /\ \A p \in Positions : Finished(unit[p]) => ~unit[p].connected
    /\ pc = "returned" => \A p \in Positions : ~unit[p].connected

SessionsClosedWitness ==
    /\ pc = "returned"
    /\ C >= 2
    /\ \E p \in Positions :
          /\ ConnectedOnce(unit[p])
          /\ Len(unit[p].results) = C
          /\ \A k \in 1..C : unit[p].results[k].status # SUCCESS

\* C18: no collected result has status PENDING, RUNNING or SKIPPED: each has
\* SUCCESS or one of the failure statuses.
FinalStatus(r) ==
    /\ r.status \in {SUCCESS, FAILED, TIMEOUT, AUTH_FAILED}
    /\ r.status \notin {PENDING, RUNNING, SKIPPED}

FinalStatusesOnly ==
    /\ \A k \in 1..Len(all_results) : FinalStatus(all_results[k])
    /\ \A k \in 1..Len(batch.all_results) : FinalStatus(batch.all_results[k])
    /\ \A p \in Positions :
          \A k \in 1..Len(unit[p].results) : FinalStatus(unit[p].results[k])

FinalStatusesOnlyWitness ==
    /\ pc = "returned"
    /\ CountStatus(all_results, SUCCESS) >= 1
    /\ CountStatus(all_results, FAILED) >= 1
    /\ CountStatus(all_results, TIMEOUT) >= 1

\* C19 as stated: with the default max_retries a connect attempt failing with
\* an error that is neither an authentication failure nor a timeout is the
\* only attempt, no delay is taken and the error is raised.
NoRetryOnOtherError ==
    \A p \in Positions :
        LET u == unit[p] IN
        (max_retries = DefaultMaxRetries /\ Len(u.log) >= 1 /\ u.log[1] = "error") =>
            /\ Len(u.log) = 1
            /\ u.sleeps = 0
            /\ u.phase \in {"raised", "done", "failed"}

\* the connect attempts so far failed with timeouts or other errors, at least
\* one of them another error
OtherErrors(log) ==
    /\ \A k \in 1..Len(log) : log[k] \in {"timeout", "error"}
    /\ \E k \in 1..Len(log) : log[k] = "error"

\* C19 amended: an unexpected connect error is retried like a timeout: up to
\* max_retries attempts are made with one delay between consecutive attempts,
\* and only the error of the last attempt is raised.
OtherErrorRetried ==
    \A p \in Positions :
        LET u == unit[p] IN
        OtherErrors(u.log) =>
            /\ Len(u.log) <= max_retries
            /\ u.phase = "sleeping" =>
                  Len(u.log) < max_retries /\ u.sleeps = Len(u.log) - 1
            /\ u.phase = "connecting" => u.sleeps = Len(u.log)
            /\ u.phase \in {"raised", "done", "failed"} =>
                  /\ Len(u.log) = max_retries
                  /\ u.sleeps = max_retries - 1
                  /\ u.exc = u.log[Len(u.log)]

OtherErrorRetriedWitness ==
    \E p \in Positions :
        /\ max_retries = DefaultMaxRetries
        /\ unit[p].log = <<"error", "error", "error">>
        /\ unit[p].sleeps = 2
        /\ unit[p].phase = "raised"
        /\ unit[p].exc = "error"

\* C20 as stated: once a send found the transport lost, no further command is
\* sent over that connection.
NoSendAfterTransportLoss ==
    \A p \in Positions :
        \A k \in 1..Len(unit[p].sent) :
            unit[p].sent[k].outcome = "lost" => k = Len(unit[p].sent)

\* C20 amended: after the transport is lost the session stays connected until
\* the with block ends; every remaining command is still sent, in order, and
\* each gets a FAILED result with empty output and the command-execution
\* error; no further connect attempt is made.
TransportLossHandling ==
    \A p \in Positions :
        LET u == unit[p] IN
        \A k \in 1..Len(u.sent) :
            u.sent[k].outcome = "lost" =>
                /\ Len(u.results) = Len(u.sent)
                /\ \A j \in k..Len(u.sent) :
                      /\ u.sent[j].outcome = "lost"
                      /\ u.sent[j].command = commands[j]
                      /\ u.results[j].command = commands[j]
                      /\ u.results[j].status = FAILED
                      /\ u.results[j].output = ""
                      /\ u.results[j].error = "Command execution error"
                /\ u.phase \in {"executing", "close_failed", "done"}
                /\ u.phase = "executing" => u.connected
                /\ u.phase = "done" => Len(u.sent) = C
                /\ ConnectedOnce(u)
                /\ \A i \in 1..(Len(u.log) - 1) : u.log[i] # "ok"

TransportLossHandlingWitness ==
    \E p \in Positions :
        /\ unit[p].phase = "done"
        /\ Len(unit[p].sent) = 3
        /\ unit[p].sent[1].outcome = "ok"
        /\ unit[p].sent[2].outcome = "lost"
        /\ unit[p].sent[3].outcome = "lost"

\* no invocation of the progress callback has raised so far
NoCallbackRaised == \A k \in 1..Len(cb_calls) : ~cb_calls[k].raised

\* C21: in execute_on_device_batches the statistics handed to the k-th
\* callback invocation of the whole run show total_devices = D and
\* completed_devices = k (here: while no callback invocation has raised).
BatchCallbackStatsAccumulated ==
    (batch.pc # "off" /\ NoCallbackRaised) =>
        \A k \in 1..Len(cb_calls) :
            /\ cb_calls[k].stats.total_devices = Len(batch.devices)
            /\ cb_calls[k].stats.completed_devices = k

\* C22: at every callback invocation completed_devices equals the number of
\* devices whose results have been merged into the collection, and
\* successful_commands + failed_commands equals the collection's length.
SerializedUpdates ==
    \A k \in 1..Len(cb_calls) :
        /\ cb_calls[k].stats.completed_devices =
              Cardinality({cb_calls[j].pos : j \in 1..k})
        /\ cb_calls[k].stats.successful_commands
              + cb_calls[k].stats.failed_commands = cb_calls[k].collected

\* C24: end_time is set only when execute_on_devices returns, and then every
\* device's call has finished and been processed, no worker is running and
\* completed_devices equals the number of devices.
StatsFinalizedLast ==
    /\ pc # "returned" => ~stats.end_time
    /\ stats.end_time =>
          /\ \A p \in Positions : Finished(unit[p])
          /\ Running = {}
          /\ processed = Positions
          /\ stats.completed_devices = D

\* C29: progress_percentage is completed_devices * 100 / total_devices, or 0
\* when total_devices is 0; during and after a run it stays within 0..100
\* and never decreases.
ProgressPercentageBounded ==
    /\ [](/\ progress_percentage(stats) >= 0
          /\ progress_percentage(stats) <= 100
          /\ stats.total_devices = 0 => progress_percentage(stats) = 0
          /\ stats.total_devices > 0 =>
                /\ progress_percentage(stats) * stats.total_devices
                      <= stats.completed_devices * 100
                /\ (progress_percentage(stats) + 1) * stats.total_devices
                      > stats.completed_devices * 100)
    /\ [][progress_percentage(stats') >= progress_percentage(stats)]_vars

\* C23: one call per device position, never put back in the queue nor changed
\* once it has finished; each step sends at most one command, the next one of
\* the list, so no command is sent twice over a device's connection.
OneUnitPerDevice ==
    [][/\ DOMAIN unit = Positions
       /\ DOMAIN unit' = Positions
       /\ \A p \in Positions :
             LET u == unit[p]
                 v == unit'[p]
                 n == Len(u.sent)
             IN  /\ Finished(u) => v = u
                 /\ u.phase # "queued" => v.phase # "queued"
                 /\ Len(v.sent) <= C
                 /\ Len(v.sent) \in {n, n + 1}
                 /\ SubSeq(v.sent, 1, n) = u.sent
                 /\ Len(v.sent) = n + 1 => v.sent[n + 1].command = commands[n + 1]
                 /\ Len(v.sent) = n + 1 => u.connected /\ v.attempt = u.attempt]_vars

OneUnitPerDeviceWitness ==
    /\ pc = "returned"
    /\ C >= 2
    /\ \E p \in Positions :
          /\ unit[p].phase = "done"
          /\ Len(unit[p].log) >= 2
          /\ Len(unit[p].sent) = C
          /\ unit[p].sent[1].outcome = "timeout"

\* the results execute_command builds, as opposed to the synthesized ones
FromExecuteCommand(r) ==
    r.error \in {"None", "Command timeout", "Command execution error"}

CommandTimeoutApplied ==
    \A p \in Positions :
        \A k \in 1..Len(unit[p].sent) :
            LET handed == send_command_timeout(unit[p].sent[k].command)
            IN  /\ handed.given
                /\ handed.seconds = timeout(unit[p].sent[k].command)

\* C27: a result that is not a success has empty output and an error
\* description; a success has the captured output and no error description.
ResultShape(r) ==
    IF r.status = SUCCESS
    THEN r.output = "out" /\ r.error = "None"
    ELSE r.output = "" /\ r.error \notin {"None", ""}

OutputXorError ==
    /\ \A k \in 1..Len(all_results) : ResultShape(all_results[k])
    /\ \A p \in Positions :
          \A k \in 1..Len(unit[p].results) : ResultShape(unit[p].results[k])

OutputXorErrorWitness ==
    /\ pc = "returned"
    /\ \E k \in 1..Len(all_results) : all_results[k].status = SUCCESS
    /\ \E k \in 1..Len(all_results) : all_results[k].error = "Command timeout"
    /\ \E k \in 1..Len(all_results) : all_results[k].error = "Connection timeout"

\* C28: connect sleeps only between two consecutive attempts: once it is over
\* the delays number one less than the attempts (none without an attempt),
\* while it waits the delay under way is the one after the last attempt, which
\* failed short of max_retries, and the attempts never exceed max_retries.
DelayOnlyBetweenAttempts ==
    \A p \in Positions :
        LET u == unit[p]
            attempts == Len(u.log)
        IN  /\ attempts <= max_retries
            /\ u.phase = "connecting" => u.sleeps = attempts
            /\ u.phase = "sleeping" =>
                  /\ u.sleeps = attempts - 1
                  /\ attempts < max_retries
                  /\ u.log[attempts] \in {"timeout", "error"}
            /\ u.phase \notin {"queued", "connecting", "sleeping"} =>
                  u.sleeps = IF attempts = 0 THEN 0 ELSE attempts - 1

DelayOnlyBetweenAttemptsWitness ==
    \E p \in Positions :
        /\ max_retries = 2
        /\ unit[p].log = <<"timeout", "timeout">>
        /\ unit[p].sleeps = 1
        /\ unit[p].phase = "raised"

\* the arguments of the construction pass Device's validation
ValidArguments ==
    made.args.hostname # "" /\ made.args.port \in MinPort..MaxPort

\* C30: a Device constructed with an empty hostname or a port outside
\* 1..65535 raises ValueError and no Device exists; a Device that exists has
\* a non-empty hostname and a port in 1..65535, and its fields keep the
\* values it was constructed with whatever is assigned to them.
DeviceValidated ==
    /\ made.pc = "raised" => ~ValidArguments /\ made.exc = "ValueError"
    /\ made.pc = "device" =>
          /\ ValidArguments
          /\ made.hostname # ""
          /\ made.port \in MinPort..MaxPort
          /\ made.hostname = made.args.hostname
          /\ made.port = made.args.port
          /\ made.write # <<>> => made.exc = "FrozenInstanceError"

DeviceValidatedWitness ==
    /\ made.pc = "raised"
    /\ made.exc = "ValueError"
    /\ made.args.hostname # ""
    /\ made.args.port = MaxPort + 1

\* C31: connect_with_retry of the legacy script, called with retry enabled
\* and the retry library present, has tried the connection MAX_RETRY_ATTEMPTS
\* times when it returns the failure records of a connection that timed out;
\* with retry disabled it has tried exactly once.
LegacyTimeoutRetried ==
    (/\ legacy.pc = "returned"
     /\ legacy.log # <<>>
     /\ AllTimeouts(legacy.log)
     /\ legacy.results # <<>>) =>
        Len(legacy.log) = IF legacy.retry_enabled /\ legacy.tenacity
                          THEN MAX_RETRY_ATTEMPTS
                          ELSE 1

\* C32: whatever the progress callback does, a device is recorded at most
\* once: completed_devices never exceeds total_devices, the collection holds
\* at most one entry per command for each device, and no exception of the
\* callback leaves execute_on_devices.
CallbackFailureContained ==
    /\ stats.completed_devices <= stats.total_devices
    /\ \A p \in Positions : Len(ResultsAt(p)) <= C
    /\ main_exc # "callback"

\* C33: once connect has returned normally (the with block is entered and
\* the commands are being run) the session is connected, for every
\* max_retries.
ConnectReturnsConnected ==
    \A p \in Positions : unit[p].phase = "executing" => unit[p].connected

\* C34: execute_on_device_batches returns at least one entry per device and
\* command, and with devices to run and a batch_size of zero or less it does
\* not return at all.
BatchesNeverShort ==
    /\ (batch.batch_size <= 0 /\ batch.devices # <<>>) => batch.pc # "returned"
    /\ batch.pc = "returned" =>
          Len(batch.all_results) >= Len(batch.devices) * C

\* the numeric fields of ExecutionStats
StatsCounters ==
    {"total_devices", "completed_devices", "successful_devices",
     "failed_devices", "total_commands", "successful_commands",
     "failed_commands"}

\* C35: in every state of an ExecutionStats object driven by start,
\* record_device_results and finish, completed_devices is the sum of
\* successful_devices and failed_devices and no counter is negative; no step
\* decreases a counter, and the step that sets end_time (finish) changes
\* nothing else.
ExecutionStatsInvariants ==
    /\ [](/\ stats.completed_devices =
                stats.successful_devices + stats.failed_devices
          /\ \A f \in StatsCounters : stats[f] >= 0)
    /\ [][/\ \A f \in StatsCounters : stats'[f] >= stats[f]
          /\ (~stats.end_time /\ stats'.end_time) =>
                stats' = [stats EXCEPT !.end_time = TRUE]]_vars

ExecutionStatsInvariantsWitness ==
    /\ pc = "idle"
    /\ stats.start_time
    /\ stats.end_time
    /\ stats.total_devices = 2
    /\ stats.completed_devices = 2
    /\ stats.successful_devices = 1
    /\ stats.failed_devices = 1
    /\ stats.successful_commands = 2
    /\ stats.failed_commands = 1

\* execute_on_devices always ends: it returns or an exception leaves it
Terminates == <>(pc \in {"returned", "raised"})

\* C36: called with a pool size the pool accepts, execute_on_devices
\* eventually returns, whatever the devices, the commands, max_retries and the
\* outcomes of the connection attempts, the commands and the callback.
EventuallyReturns == (max_workers >= 1) => <>(pc = "returned")

\* C37: connect_and_execute of the legacy script returns exactly one record
\* per command, in command order, in every outcome: a connection that times
\* out, is refused or fails otherwise, any mix of command outcomes, and a
\* disconnect that fails.
LegacyOneRecordPerCommand ==
    legacy.pc = "returned" =>
        /\ Len(legacy.results) = C
        /\ \A k \in 1..C : legacy.results[k].command = commands[k]

====
